---------------------------- MODULE Spec2Model ----------------------------
(***************************************************************************)
(* Event-study analytics of yfinance_project: Analyser (src/src/analyser.py)*)
(* and Strategy (src/src/strategy.py).                                      *)
(*                                                                          *)
(* Numbers.  A float is an extended rational <<n, d>> in lowest terms:      *)
(* d > 0 is the finite value n/d, <<1,0>> is +inf, <<-1,0>> is -inf and     *)
(* <<0,0>> is NaN.  Arithmetic is exact (no rounding); division by zero and *)
(* NaN propagate as numpy's do.  A standard deviation s is carried as s^2   *)
(* (the sample variance): the square root is monotone, so every comparison  *)
(* and argmin over s is the one over s^2, and s is NaN exactly when s^2 is. *)
(*                                                                          *)
(* Frames.  A DataFrame is [cols |-> set of column labels, rows |-> Seq of  *)
(* [k |-> index label, v |-> [cols -> float]]], rows in index order.  A     *)
(* Series is a function from labels to floats.  Dates are day numbers.      *)
(* A call returns [exc |-> "none" or the exception raised, ...].            *)
(***************************************************************************)
EXTENDS Integers, Sequences, FiniteSets, TLC

VARIABLES
    prices,       \* Analyser.prices: the price table, or NoFrame before download
    events,       \* Analyser.events: list of event dates (0: not a date)
    pre_window,   \* Analyser.pre_window
    post_window,  \* Analyser.post_window
    pc,           \* position of Analyser.run
    i,            \* run's loop index into events (1-based)
    widgets,      \* per displayed event: the closure of plot_event_interactive
    status,       \* per event: what run produced for it
    out,          \* what the last _update call displayed
    input,        \* argument of a directly applied function
    result        \* its result

vars == <<prices, events, pre_window, post_window, pc, i, widgets, status,
          out, input, result>>

-----------------------------------------------------------------------------
(* Floats *)

NaN == <<0, 0>>
Inf == <<1, 0>>
One == <<1, 1>>
Zero == <<0, 1>>

Abs(x) == IF x < 0 THEN -x ELSE x
Sign(x) == IF x < 0 THEN -1 ELSE IF x > 0 THEN 1 ELSE 0

RECURSIVE Gcd(_, _)
Gcd(a, b) == IF b = 0 THEN a ELSE Gcd(b, a % b)

Rat(n, d) ==
    IF d = 0 THEN <<Sign(n), 0>>
    ELSE LET g == Gcd(Abs(n), Abs(d))
         IN  <<Sign(d) * (n \div g), Abs(d) \div g>>

IsNaN(a) == a = NaN
IsFinite(a) == a[2] # 0

RNeg(a) == <<-a[1], a[2]>>

RAdd(a, b) ==
    IF IsNaN(a) \/ IsNaN(b) THEN NaN
    ELSE IF ~IsFinite(a) /\ ~IsFinite(b) THEN (IF a = b THEN a ELSE NaN)
    ELSE IF ~IsFinite(a) THEN a
    ELSE IF ~IsFinite(b) THEN b
    ELSE LET g == Gcd(a[2], b[2])
         IN  Rat(a[1] * (b[2] \div g) + b[1] * (a[2] \div g), (a[2] \div g) * b[2])

RSub(a, b) == RAdd(a, RNeg(b))

RMul(a, b) ==
    IF IsNaN(a) \/ IsNaN(b) THEN NaN
    ELSE IF ~IsFinite(a) \/ ~IsFinite(b) THEN <<Sign(a[1]) * Sign(b[1]), 0>>
    ELSE IF a[1] = 0 \/ b[1] = 0 THEN Zero
    ELSE LET g1 == Gcd(Abs(a[1]), b[2])
             g2 == Gcd(Abs(b[1]), a[2])
         IN  <<(a[1] \div g1) * (b[1] \div g2), (a[2] \div g2) * (b[2] \div g1)>>

RInv(a) ==
    IF IsNaN(a) THEN NaN
    ELSE IF ~IsFinite(a) THEN Zero
    ELSE IF a[1] = 0 THEN Inf
    ELSE <<Sign(a[1]) * a[2], Abs(a[1])>>

RDiv(a, b) == RMul(a, RInv(b))

\* a < b and a <= b; any comparison with NaN is false
RLt(a, b) ==
    /\ ~IsNaN(a) /\ ~IsNaN(b)
    /\ IF ~IsFinite(a) /\ ~IsFinite(b) THEN a[1] < b[1]
       ELSE a[1] * b[2] < b[1] * a[2]
RLe(a, b) == ~IsNaN(a) /\ ~IsNaN(b) /\ (a = b \/ RLt(a, b))

IntF(n) == <<n, 1>>

-----------------------------------------------------------------------------
(* Frames and Series *)

NoFrame == [cols |-> {}, rows |-> <<>>]
NoSeries == [t \in {} |-> NaN]

Index(df) == [j \in 1..Len(df.rows) |-> df.rows[j].k]

\* sum of a sequence of floats
RECURSIVE RSum(_)
RSum(s) == IF s = <<>> THEN Zero ELSE RAdd(Head(s), RSum(Tail(s)))

\* column c of df as a sequence of floats
Column(df, c) == [j \in 1..Len(df.rows) |-> df.rows[j].v[c]]


\* the labels of a sequence of labels
Range(s) == {s[j] : j \in 1..Len(s)}

\* positions of the rows of df whose index label lies in [lo, hi]
Slice(df, lo, hi) ==
    [cols |-> df.cols,
     rows |-> SelectSeq(df.rows, LAMBDA r : r.k >= lo /\ r.k <= hi)]

\* Series.min / Series.max of a NaN-free sequence; NaN for an empty one
SeqMin(s) ==
    IF s = <<>> THEN NaN
    ELSE CHOOSE m \in Range(s) : \A x \in Range(s) : RLe(m, x)
SeqMax(s) ==
    IF s = <<>> THEN NaN
    ELSE CHOOSE m \in Range(s) : \A x \in Range(s) : RLe(x, m)

\* position of the first occurrence of the minimum / maximum (idxmin, idxmax)
ArgMinPos(s) == CHOOSE j \in 1..Len(s) :
    /\ s[j] = SeqMin(s)
    /\ \A h \in 1..(j - 1) : s[h] # s[j]
ArgMaxPos(s) == CHOOSE j \in 1..Len(s) :
    /\ s[j] = SeqMax(s)
    /\ \A h \in 1..(j - 1) : s[h] # s[j]

\* DataFrame.pct_change(): row j is v[j] / v[j-1] - 1, the first row is NaN
PctChange(df) ==
    [cols |-> df.cols,
     rows |-> [j \in 1..Len(df.rows) |->
        [k |-> df.rows[j].k,
         v |-> [c \in df.cols |->
                  IF j = 1 THEN NaN
                  ELSE RSub(RDiv(df.rows[j].v[c], df.rows[j - 1].v[c]), One)]]]]

\* DataFrame.dropna(): drop every row that holds a NaN
DropNa(df) ==
    [cols |-> df.cols,
     rows |-> SelectSeq(df.rows, LAMBDA r : \A c \in df.cols : ~IsNaN(r.v[c]))]

\* the value of e, named in F: With(e, LAMBDA x : body) is body with x = e,
\* e being evaluated once
With(e, F(_)) == CHOOSE r \in {F(x) : x \in {e}} : TRUE

Mean(s) == RDiv(RSum(s), IntF(Len(s)))

\* Series.cov(other): sample covariance (ddof = 1), NaN below two observations
Cov(x, y) ==
    IF Len(x) < 2 THEN NaN
    ELSE With(<<Mean(x), Mean(y)>>, LAMBDA m :
            RDiv(RSum([j \in 1..Len(x) |-> RMul(RSub(x[j], m[1]), RSub(y[j], m[2]))]),
                 IntF(Len(x) - 1)))

\* Series.var(): sample variance (ddof = 1), NaN below two observations
Var(x) == Cov(x, x)

-----------------------------------------------------------------------------
(* Strategy, src/src/strategy.py *)

MarketTicker == "GSPC"

\* Strategy.__init__: self.tickers = [t for t in tickers if t != market_ticker]
StrategyTickers(tickers) == SelectSeq(tickers, LAMBDA t : t # MarketTicker)

\* Series[list of labels]: KeyError when a label is not in the Series' index
Take(series, labels) ==
    IF labels \subseteq DOMAIN series
    THEN [exc |-> "none", val |-> [t \in labels |-> series[t]]]
    ELSE [exc |-> "KeyError", val |-> NoSeries]

\* Series.reindex(labels): NaN for a label the Series does not have
Reindex(series, labels) ==
    [t \in labels |-> IF t \in DOMAIN series THEN series[t] ELSE NaN]

\* Strategy.max_drawdown
max_drawdown(self_tickers, norm_rel) ==
    With([c \in norm_rel.cols |-> SeqMin(Column(norm_rel, c))], LAMBDA min_levels :
    With([c \in norm_rel.cols |-> RSub(One, min_levels[c])], LAMBDA dd :
         Take(dd, Range(self_tickers))))

\* RecoveryOfColumn with the search started at the first post-anchor row
\* instead of the trough
RecoveryOfColumn_FromFirstPost(norm_rel, col) ==
    With(SelectSeq(norm_rel.rows, LAMBDA r : r.k < 0), LAMBDA pre :
    With(SelectSeq(norm_rel.rows, LAMBDA r : r.k > 0), LAMBDA post :
        IF pre = <<>> THEN [exc |-> "none", val |-> Inf]
        ELSE IF post = <<>> THEN [exc |-> "ValueError", val |-> NaN]
        ELSE
    With(SeqMax([j \in 1..Len(pre) |-> pre[j].v[col]]), LAMBDA pre_peak :
    With(SelectSeq(post, LAMBDA r : RLe(pre_peak, r.v[col])), LAMBDA recovered :
        IF Len(recovered) = 0 THEN [exc |-> "none", val |-> Inf]
        ELSE [exc |-> "none", val |-> IntF(recovered[1].k)]))))

\* the body of recovery_days' loop for one column (lines 32-53)
RecoveryOfColumn(norm_rel, col) ==
    With(SelectSeq(norm_rel.rows, LAMBDA r : r.k < 0), LAMBDA pre :
    With(SelectSeq(norm_rel.rows, LAMBDA r : r.k > 0), LAMBDA post :
        IF pre = <<>> THEN [exc |-> "none", val |-> Inf]
        \* post.idxmin() of an empty Series raises ValueError
        ELSE IF post = <<>> THEN [exc |-> "ValueError", val |-> NaN]
        ELSE
    With(SeqMax([j \in 1..Len(pre) |-> pre[j].v[col]]), LAMBDA pre_peak :
    With(post[ArgMinPos([j \in 1..Len(post) |-> post[j].v[col]])].k, LAMBDA trough_idx :
    With(SelectSeq(post, LAMBDA r : r.k >= trough_idx), LAMBDA recovery_phase :
    With(SelectSeq(recovery_phase, LAMBDA r : RLe(pre_peak, r.v[col])), LAMBDA recovered :
        IF Len(recovered) = 0 THEN [exc |-> "none", val |-> Inf]
        ELSE [exc |-> "none", val |-> IntF(recovered[1].k)]))))))

\* Strategy.recovery_days
recovery_days(self_tickers, norm_rel) ==
    With([c \in norm_rel.cols \cap Range(self_tickers) |->
            RecoveryOfColumn(norm_rel, c)], LAMBDA rec_days :
        IF \E c \in DOMAIN rec_days : rec_days[c].exc # "none"
        THEN [exc |-> "ValueError", val |-> NoSeries]
        ELSE [exc |-> "none", val |-> [c \in DOMAIN rec_days |-> rec_days[c].val]])

\* Strategy.post_event_volatility (the standard deviation, carried squared)
post_event_volatility(self_tickers, window_rel) ==
    With([cols |-> window_rel.cols,
          rows |-> SelectSeq(window_rel.rows, LAMBDA r : r.k >= 0)], LAMBDA post :
    With(DropNa(PctChange(post)), LAMBDA returns :
    With([c \in returns.cols |-> With(Column(returns, c), LAMBDA x : Var(x))], LAMBDA vol :
         Take(vol, Range(self_tickers)))))

\* Strategy.build_summary: metrics is compute_metrics' frame (ticker ->
\* [pre_return, post_return]), betas a Series; the summary is its index (the
\* tickers in configured order) and a row per index label
NoSummary == [exc |-> "none", index |-> <<>>, rows |-> NoSeries]
build_summary(self_tickers, metrics, betas, norm_rel, window_rel) ==
    With(SelectSeq(self_tickers, LAMBDA t : t \in DOMAIN metrics), LAMBDA tickers :
    With(max_drawdown(self_tickers, norm_rel), LAMBDA dd :
        IF dd.exc # "none" THEN [NoSummary EXCEPT !.exc = dd.exc] ELSE
    With(post_event_volatility(self_tickers, window_rel), LAMBDA vol :
        IF vol.exc # "none" THEN [NoSummary EXCEPT !.exc = vol.exc] ELSE
    With(recovery_days(self_tickers, norm_rel), LAMBDA rec :
        IF rec.exc # "none" THEN [NoSummary EXCEPT !.exc = rec.exc] ELSE
        [exc |-> "none",
         index |-> tickers,
         rows |-> [t \in Range(tickers) |->
            [pre_return |-> metrics[t].pre_return,
             post_return |-> metrics[t].post_return,
             max_drawdown |-> Reindex(dd.val, Range(tickers))[t],
             volatility |-> Reindex(vol.val, Range(tickers))[t],
             days_to_recovery |-> Reindex(rec.val, Range(tickers))[t],
             beta |-> Reindex(betas, Range(tickers))[t]]]]))))

\* Series.idxmin() / idxmax() of the column s of a frame with index labels:
\* NaN is skipped, the first of equal extremes wins.  When every value is NaN
\* the result is nan (pandas 1.x and 2.x; 2.x also warns that a later
\* version will raise ValueError instead)
IdxMin(labels, s) ==
    With({j \in 1..Len(labels) : ~IsNaN(s[labels[j]])}, LAMBDA valid :
        IF valid = {} THEN "nan"
        ELSE labels[CHOOSE j \in valid :
                    \A h \in valid : RLt(s[labels[j]], s[labels[h]])
                                     \/ (s[labels[h]] = s[labels[j]] /\ j <= h)])
IdxMax(labels, s) ==
    With({j \in 1..Len(labels) : ~IsNaN(s[labels[j]])}, LAMBDA valid :
        IF valid = {} THEN "nan"
        ELSE labels[CHOOSE j \in valid :
                    \A h \in valid : RLt(s[labels[h]], s[labels[j]])
                                     \/ (s[labels[h]] = s[labels[j]] /\ j <= h)])

\* Strategy.print_recommendations: what it prints
NoRecommendation ==
    [printed |-> FALSE, defensive |-> "None", growth |-> "None", fast_rec |-> "None"]
print_recommendations(summary) ==
    IF summary.index = <<>> THEN NoRecommendation ELSE
    With(summary.index, LAMBDA idx :
    With([t \in Range(idx) |->
            IF summary.rows[t].days_to_recovery = Inf THEN NaN
            ELSE summary.rows[t].days_to_recovery], LAMBDA recovery_series :
        [printed |-> TRUE,
         defensive |-> IdxMin(idx, [t \in Range(idx) |-> summary.rows[t].volatility]),
         growth |-> IdxMax(idx, [t \in Range(idx) |-> summary.rows[t].post_return]),
         fast_rec |-> IF \E t \in Range(idx) : ~IsNaN(recovery_series[t])
                      THEN IdxMin(idx, recovery_series)
                      ELSE "None"]))

-----------------------------------------------------------------------------
(* Analyser, src/src/analyser.py: the functions of a window or a slice *)

\* np.isclose(a, 1.0) with numpy's defaults rtol = 1e-5, atol = 1e-8:
\* |a - 1| <= 1e-8 + 1e-5, that is |n - d| / d <= 1001 / 10^8
IsClose1(a) ==
    IsFinite(a) /\ Abs(a[1] - a[2]) <= (1001 * a[2]) \div 100000000

\* Analyser.compute_metrics
compute_metrics(norm_prices) ==
    IF ~\E r \in Range(norm_prices.rows) : \E c \in norm_prices.cols : IsClose1(r.v[c])
    THEN [exc |-> "ValueError", val |-> NoSeries]
    ELSE
    With(norm_prices.rows[1], LAMBDA first :
    With(norm_prices.rows[Len(norm_prices.rows)], LAMBDA last :
        [exc |-> "none",
         val |-> [c \in norm_prices.cols |->
                    [pre_return |-> RSub(RInv(first.v[c]), One),
                     post_return |-> RSub(last.v[c], One)]]]))

\* compute_beta dividing by the sector's own variance
compute_beta_OwnVariance(window, market_ticker) ==
    With(DropNa(PctChange(window)), LAMBDA returns :
        IF market_ticker \notin returns.cols
        THEN [exc |-> "ValueError", val |-> NoSeries]
        ELSE
    With(Column(returns, market_ticker), LAMBDA market :
        [exc |-> "none",
         val |-> [col \in returns.cols \ {market_ticker} |->
                    With(Column(returns, col), LAMBDA sector :
                         RDiv(Cov(sector, market), Var(sector)))]]))

\* Analyser.compute_beta
compute_beta(window, market_ticker) ==
    With(DropNa(PctChange(window)), LAMBDA returns :
        IF market_ticker \notin returns.cols
        THEN [exc |-> "ValueError", val |-> NoSeries]
        ELSE
    With(Column(returns, market_ticker), LAMBDA market :
    With(Var(market), LAMBDA var_mkt :
        [exc |-> "none",
         val |-> [col \in returns.cols \ {market_ticker} |->
                    With(Column(returns, col), LAMBDA sector :
                         RDiv(Cov(sector, market), var_mkt))]])))

\* Analyser.get_event_window, after pd.to_datetime: the positions (1-based)
\* of the trading dates nearest to the requested date
NearestPositions(table, event_dt) ==
    {j \in 1..Len(table.rows) :
        \A h \in 1..Len(table.rows) :
            Abs(table.rows[j].k - event_dt) <= Abs(table.rows[h].k - event_dt)}

\* Analyser.get_event_window: the rows from pre rows before to post rows after
\* position idx, clamped to the table
EventWindow(table, idx, pre, post) ==
    LET start == IF idx - 1 - pre > 0 THEN idx - 1 - pre ELSE 0
        stop == IF idx + post < Len(table.rows) THEN idx + post ELSE Len(table.rows)
    IN  [cols |-> table.cols, rows |-> SubSeq(table.rows, start + 1, stop)]

\* normalise dividing by the first row of the window
normalise_ByFirstRow(window, event_dt) ==
    [cols |-> window.cols,
     rows |-> [j \in 1..Len(window.rows) |->
                 [k |-> window.rows[j].k,
                  v |-> [c \in window.cols |->
                           RDiv(window.rows[j].v[c], window.rows[1].v[c])]]]]

\* Analyser.normalise
normalise(window, event_dt) ==
    With((CHOOSE r \in Range(window.rows) : r.k = event_dt).v, LAMBDA base :
        [cols |-> window.cols,
         rows |-> [j \in 1..Len(window.rows) |->
                     [k |-> window.rows[j].k,
                      v |-> [c \in window.cols |->
                               RDiv(window.rows[j].v[c], base[c])]]]])

\* run, lines 288-294: the frame re-indexed by (date - event_dt).days
RelDays(df, event_dt) ==
    [cols |-> df.cols,
     rows |-> [j \in 1..Len(df.rows) |->
                 [k |-> df.rows[j].k - event_dt, v |-> df.rows[j].v]]]

\* plot_event_interactive: max_range and the values of the Dropdown's options
RawDays == {1, 7, 30, 90, 180, 365}
MaxRange(norm_rel) ==
    LET lo == Abs(norm_rel.rows[1].k)
        hi == Abs(norm_rel.rows[Len(norm_rel.rows)].k)
    IN  IF lo > hi THEN lo ELSE hi
Options(norm_rel) ==
    With(MaxRange(norm_rel), LAMBDA max_range :
        {IF days < max_range THEN days ELSE max_range : days \in RawDays \cup {max_range}})
\* the Dropdown's initial value: its first option, min(1, max_range)
FirstOption(norm_rel) == IF 1 < MaxRange(norm_rel) THEN 1 ELSE MaxRange(norm_rel)

\* the slice without the mask: the whole window
ZoomSlice_NoMask(df, zoom) == df

\* _update, lines 222-224: df.loc[(index >= -zoom) & (index <= zoom)]
ZoomSlice(df, zoom) == Slice(df, -zoom, zoom)

\* a single row counted as enough
EnoughRows_One(df) == Len(df.rows) >= 1

\* _update, lines 231 and 240: len(slice) >= 2
EnoughRows(df) == Len(df.rows) >= 2

\* what _update displays when it computes nothing
Blank(zoom, norm_slice) ==
    [fn |-> "update", widget |-> 0, zoom |-> zoom, rows |-> Index(norm_slice),
     metrics |-> [state |-> "insufficient", val |-> NoSeries],
     betas |-> [state |-> "insufficient", val |-> NoSeries],
     volatility |-> [state |-> "not computed", val |-> NoSeries],
     summary |-> [state |-> "insufficient", index |-> <<>>, rows |-> NoSeries],
     recs |-> NoRecommendation,
     exc |-> "none"]

\* _update, lines 249-263: the summary and the recommendations of the slice,
\* added to what is shown.  volatility records what post_event_volatility
\* returned to build_summary.
UpdateSummary(self_tickers, norm_slice, window_slice, shown) ==
    IF shown.metrics.state # "computed" \/ shown.betas.state # "computed"
    THEN shown
    ELSE
    With(post_event_volatility(self_tickers, window_slice), LAMBDA vol :
    With(build_summary(self_tickers, shown.metrics.val, shown.betas.val,
                       norm_slice, window_slice), LAMBDA summary_zoom :
        IF summary_zoom.exc # "none"
        THEN [shown EXCEPT !.exc = summary_zoom.exc,
                           !.summary.state = "not built",
                           !.volatility = IF vol.exc = "none"
                                          THEN [state |-> "computed", val |-> vol.val]
                                          ELSE @]
        ELSE
        [shown EXCEPT !.volatility = [state |-> "computed", val |-> vol.val],
                      !.summary = [state |-> "built", index |-> summary_zoom.index,
                                   rows |-> summary_zoom.rows],
                      !.recs = print_recommendations(summary_zoom)]))

\* _update, lines 227-247: the returns and the betas of the slice
UpdateMetrics(self_tickers, norm_slice, window_slice, zoom) ==
    With(IF EnoughRows(norm_slice) THEN compute_metrics(norm_slice)
         ELSE [exc |-> "insufficient", val |-> NoSeries], LAMBDA metrics_zoom :
        IF metrics_zoom.exc \notin {"none", "insufficient"}
        THEN [Blank(zoom, norm_slice) EXCEPT !.exc = metrics_zoom.exc]
        ELSE
    With(IF EnoughRows(window_slice) THEN compute_beta(window_slice, MarketTicker)
         ELSE [exc |-> "insufficient", val |-> NoSeries], LAMBDA betas_zoom :
    With([Blank(zoom, norm_slice) EXCEPT
            !.metrics = IF metrics_zoom.exc = "none"
                        THEN [state |-> "computed", val |-> metrics_zoom.val] ELSE @],
         LAMBDA shown :
        IF betas_zoom.exc \notin {"none", "insufficient"}
        THEN [shown EXCEPT !.exc = betas_zoom.exc]
        ELSE UpdateSummary(self_tickers, norm_slice, window_slice,
                [shown EXCEPT
                    !.betas = IF betas_zoom.exc = "none"
                              THEN [state |-> "computed", val |-> betas_zoom.val] ELSE @]))))

\* plot_event_interactive._update: what one call displays
update(self_tickers, norm_rel, window_rel, zoom) ==
    With(ZoomSlice(norm_rel, zoom), LAMBDA norm_slice :
    With(ZoomSlice(window_rel, zoom), LAMBDA window_slice :
         UpdateMetrics(self_tickers, norm_slice, window_slice, zoom)))

-----------------------------------------------------------------------------
(* Analyser.run: the pipeline over the configured events *)

\* no function applied yet / no result yet
Pending == [exc |-> "pending", val |-> NoSeries]
Idle == [fn |-> "none"]

\* the tickers the Analyser is built with (three of src/src/config.py's four)
Tickers == <<MarketTicker, "XLE", "XLK">>

MaxRows == 4      \* rows of the price table the provider returns
MaxEvents == 2    \* length of the list of events

\* the trading days the provider may return a row for (weekend and holiday
\* gaps), and the course of a ticker's price over them
Days == <<1, 2, 3, 6, 14>>
Crash == <<4, 3, 2, 3, 4>>
Fall == <<4, 4, 3, 2, 1>>
Rise == <<1, 2, 2, 3, 4>>
MarketPaths == {Crash}
EnergyPaths == {Crash, Fall}
TechPaths == {Rise, Fall}

\* the requested event dates: 0 is a string pd.to_datetime cannot parse
BadDate == 0
EventDates == {BadDate, 2, 5}
WindowConfigs == {<<1, 3>>, <<3, 0>>}

\* the table holding the rows at the positions pos of Days
TableOf(pos, pm, pe, pk) ==
    LET have == SelectSeq([j \in 1..Len(Days) |-> j], LAMBDA j : j \in pos)
    IN  [cols |-> Range(Tickers),
         rows |-> [j \in 1..Len(have) |->
                     [k |-> Days[have[j]],
                      v |-> [c \in Range(Tickers) |->
                               IntF(IF c = MarketTicker THEN pm[have[j]]
                                    ELSE IF c = "XLE" THEN pe[have[j]]
                                    ELSE pk[have[j]])]]]]

\* what yf.download may return: a NaN-free table, or nothing
ProviderTables ==
    {TableOf(pos, pm, pe, pk) :
        pos \in {q \in SUBSET (1..Len(Days)) : Cardinality(q) <= MaxRows},
        pm \in MarketPaths, pe \in EnergyPaths, pk \in TechPaths}

EventLists == UNION {[1..n -> EventDates] : n \in 1..MaxEvents}

Init ==
    /\ prices = NoFrame
    /\ events \in EventLists
    /\ \E w \in WindowConfigs : pre_window = w[1] /\ post_window = w[2]
    /\ pc = "start"
    /\ i = 1
    /\ widgets = <<>>
    /\ status = [j \in 1..Len(events) |-> "pending"]
    /\ out = Idle
    /\ input = Idle
    /\ result = Pending

\* run, line 276: download_data.  The provider raises (RuntimeError), returns
\* a table without rows (ValueError), or returns a table
DownloadData ==
    /\ pc = "start"
    /\ \E failed \in BOOLEAN, table \in ProviderTables :
         IF failed
         THEN pc' = "RuntimeError" /\ prices' = prices
         ELSE IF table.rows = <<>>
         THEN pc' = "ValueError" /\ prices' = prices
         ELSE pc' = "loop" /\ prices' = table
    /\ UNCHANGED <<events, pre_window, post_window, i, widgets, status, out,
                   input, result>>

\* run, lines 278-297: one iteration of the loop over the events.
\* widgets.interact calls _update once with the Dropdown's initial value; an
\* exception of that call is shown by the widget (caught) or ends run.
ProcessEvent ==
    /\ pc = "loop"
    /\ IF events[i] = BadDate
       THEN \* pd.to_datetime raises: nothing catches it
            /\ pc' = "ValueError"
            /\ status' = [status EXCEPT ![i] = "raised"]
            /\ UNCHANGED <<i, widgets, out>>
       ELSE \E idx \in NearestPositions(prices, events[i]), caught \in BOOLEAN :
            \E event_dt \in {prices.rows[idx].k} :
            \E window \in {EventWindow(prices, idx, pre_window, post_window)} :
            \E norm \in {normalise(window, event_dt)} :
            \E window_rel \in {RelDays(window, event_dt)},
               norm_rel \in {RelDays(norm, event_dt)} :
            \E shown \in {update(StrategyTickers(Tickers), norm_rel, window_rel,
                                 FirstOption(norm_rel))} :
                /\ widgets' = Append(widgets,
                       [event |-> i, event_dt |-> event_dt, norm_rel |-> norm_rel,
                        window_rel |-> window_rel, options |-> Options(norm_rel)])
                /\ out' = [shown EXCEPT !.widget = Len(widgets) + 1]
                /\ IF shown.exc # "none" /\ ~caught
                   THEN /\ pc' = shown.exc
                        /\ status' = [status EXCEPT ![i] = "raised"]
                        /\ i' = i
                   ELSE /\ pc' = IF i = Len(events) THEN "done" ELSE "loop"
                        /\ status' = [status EXCEPT ![i] = "analysed"]
                        /\ i' = i + 1
    /\ UNCHANGED <<prices, events, pre_window, post_window, input, result>>

\* the user picks zoom on the Dropdown of widget w: _update(zoom)
ZoomUpdate ==
    /\ pc \notin {"start", "loop", "idle"}
    /\ \E w \in 1..Len(widgets) :
         \E zoom \in widgets[w].options :
            out' = [update(StrategyTickers(Tickers), widgets[w].norm_rel,
                           widgets[w].window_rel, zoom)
                    EXCEPT !.widget = w]
    /\ UNCHANGED <<prices, events, pre_window, post_window, pc, i, widgets,
                   status, input, result>>

Next == DownloadData \/ ProcessEvent \/ ZoomUpdate

Spec == Init /\ [][Next]_vars

\* the widget the last _update call belongs to, and the rows of its window
\* that lie within the zoom of that call
Shown == out.fn = "update"
OutWidget == widgets[out.widget]
Visible == {r \in Range(OutWidget.norm_rel.rows) : r.k >= -out.zoom /\ r.k <= out.zoom}
VisibleRaw == {r \in Range(OutWidget.window_rel.rows) : r.k >= -out.zoom /\ r.k <= out.zoom}
FirstVisible == CHOOSE r \in Visible : \A q \in Visible : r.k <= q.k
LastVisible == CHOOSE r \in Visible : \A q \in Visible : q.k <= r.k

\* C2: on a slice of at least 2 rows _update's returns are, per column,
\* pre_return = 1/v0 - 1 and post_return = vN - 1 with v0 and vN the values
\* in the first and the last row within the zoom, not of the whole window.
C2_ReturnsOfSlice ==
    (Shown /\ Cardinality(Visible) >= 2) =>
        /\ out.metrics.state = "computed"
        /\ DOMAIN out.metrics.val = OutWidget.norm_rel.cols
        /\ \A c \in OutWidget.norm_rel.cols :
              /\ out.metrics.val[c].pre_return = RSub(RDiv(One, FirstVisible.v[c]), One)
              /\ out.metrics.val[c].post_return = RSub(LastVisible.v[c], One)

\* returns were computed on a zoom that ends before the window does, and
\* the window's own last row would have given another post_return
C2_Witness ==
    /\ Shown /\ out.metrics.state = "computed"
    /\ \E r \in Range(OutWidget.norm_rel.rows) : r.k > out.zoom
    /\ \E c \in OutWidget.norm_rel.cols :
          /\ LastVisible.v[c] # OutWidget.norm_rel.rows[Len(OutWidget.norm_rel.rows)].v[c]
          /\ out.metrics.val[c].pre_return # Zero
          /\ out.metrics.val[c].post_return # Zero

\* C3: for every displayed event and every zoom its Dropdown offers, the zoom
\* is within [0, max_range], the slice holds exactly one row at offset 0, that
\* row is the table's row of a trading date nearest to the requested date, and
\* every column is 1.0 there.
C3_AnchorInEveryZoom ==
    \A w \in 1..Len(widgets) :
        LET wd == widgets[w]
            reach == {Abs(r.k) : r \in Range(wd.norm_rel.rows)}
        IN  \A z \in wd.options :
              LET at0 == {r \in Range(wd.norm_rel.rows) : r.k >= -z /\ r.k <= z /\ r.k = 0}
                  raw0 == {r \in Range(wd.window_rel.rows) : r.k >= -z /\ r.k <= z /\ r.k = 0}
              IN  /\ z >= 0 /\ \A d \in reach : z <= d \/ \E e \in reach : e > d
                  /\ \E d \in reach : z <= d
                  /\ Cardinality(at0) = 1 /\ Cardinality(raw0) = 1
                  /\ \A r \in at0 : \A c \in wd.norm_rel.cols : r.v[c] = One
                  /\ \A r \in raw0 : \E q \in Range(prices.rows) :
                        /\ q.k = wd.event_dt /\ q.v = r.v
                        /\ \A h \in Range(prices.rows) :
                              Abs(q.k - events[wd.event]) <= Abs(h.k - events[wd.event])

\* an event whose window has rows on both sides of the anchor, with prices
\* other than the anchor's, and a zoom narrower than the window
C3_Witness ==
    \E w \in 1..Len(widgets) :
        /\ \E r \in Range(widgets[w].window_rel.rows) : r.k < 0
        /\ \E r \in Range(widgets[w].window_rel.rows) : r.k > 0
        /\ \E r, q \in Range(widgets[w].window_rel.rows) : r.k = 0 /\ q.k < 0 /\ q.v # r.v
        /\ \E z \in widgets[w].options :
              \E r \in Range(widgets[w].norm_rel.rows) : Abs(r.k) > z

\* C5: for a non-empty summary the recommendation names the ticker of least
\* volatility, the ticker of greatest post_return and the ticker of least
\* finite days_to_recovery (none when no ticker's is finite); for an empty
\* summary nothing is recommended.
C5_Recommendation ==
    (Shown /\ out.summary.state = "built") =>
        LET idx == Range(out.summary.index)
            row == out.summary.rows
            finite == {t \in idx : IsFinite(row[t].days_to_recovery)}
        IN  IF idx = {} THEN ~out.recs.printed
            ELSE /\ out.recs.printed
                 /\ out.recs.defensive \in idx
                 /\ \A t \in idx : RLe(row[out.recs.defensive].volatility, row[t].volatility)
                 /\ out.recs.growth \in idx
                 /\ \A t \in idx : RLe(row[t].post_return, row[out.recs.growth].post_return)
                 /\ IF finite = {} THEN out.recs.fast_rec = "None"
                    ELSE /\ out.recs.fast_rec \in finite
                         /\ \A t \in finite : RLe(row[out.recs.fast_rec].days_to_recovery,
                                                   row[t].days_to_recovery)

\* C7: a zoom with fewer than 2 visible rows reports insufficient data for the
\* returns and the beta, computes neither, builds no summary and recommends
\* nothing, and raises nothing.
C7_InsufficientSlice ==
    (Shown /\ Cardinality(Visible) < 2) =>
        /\ out.metrics = [state |-> "insufficient", val |-> NoSeries]
        /\ out.betas = [state |-> "insufficient", val |-> NoSeries]
        /\ out.volatility.state = "not computed"
        /\ out.summary.state = "insufficient" /\ out.summary.index = <<>>
        /\ ~out.recs.printed
        /\ out.exc = "none"

\* a zoom of a window of several rows that shows the anchor row alone
C7_Witness ==
    /\ Shown /\ Cardinality(Visible) = 1
    /\ Len(OutWidget.norm_rel.rows) >= 2

\* C8: on a slice with fewer than 2 rows at offsets >= 0 the volatility is
\* reported as insufficient, not computed, and no summary carries an
\* undefined volatility.
C8_VolatilityFlagged ==
    (Shown /\ Cardinality({r \in VisibleRaw : r.k >= 0}) < 2) =>
        /\ out.volatility.state # "computed"
        /\ \A t \in Range(out.summary.index) : ~IsNaN(out.summary.rows[t].volatility)

\* C9: once run has ended on a downloaded table, every event of the list has
\* its analysis or its own reported failure.
C9_EveryEventSettled ==
    (pc \notin {"start", "loop"} /\ prices # NoFrame) =>
        \A j \in 1..Len(events) : status[j] # "pending"

-----------------------------------------------------------------------------
(* recovery_days applied to a normalised slice, as tests/test_metrics.py    *)
(* does: Strategy(tickers=[market, XLE]).recovery_days(values)              *)

PreSpan == 2    \* offsets -PreSpan..-1 may hold a row
PostSpan == 3   \* offsets 1..PostSpan may hold a row
\* normalised values in tenths a row may hold before / after the anchor
PreValues == {9, 11, 12}
PostValues == {7, 9, 13}


\* the slice with the rows chosen by pre and post (0: no row at that offset);
\* the anchor row is 1.0, the market column is 1.0 throughout
NormSlice(pre, post) ==
    LET offs == [j \in 1..(PreSpan + PostSpan + 1) |-> j - PreSpan - 1]
        val(o) == IF o < 0 THEN pre[o] ELSE IF o > 0 THEN post[o] ELSE 10
        have == SelectSeq(offs, LAMBDA o : val(o) # 0)
    IN  [cols |-> {MarketTicker, "XLE"},
         rows |-> [j \in 1..Len(have) |->
                     [k |-> have[j],
                      v |-> [c \in {MarketTicker, "XLE"} |->
                               IF c = MarketTicker THEN One
                               ELSE Rat(val(have[j]), 10)]]]]

PipelineIdle ==
    /\ prices = NoFrame /\ events = <<>> /\ pre_window = 0 /\ post_window = 0
    /\ pc = "idle" /\ i = 0 /\ widgets = <<>> /\ status = <<>> /\ out = Idle

InitRecovery ==
    /\ PipelineIdle
    /\ \E pre \in [(-PreSpan)..(-1) -> PreValues \cup {0}],
          post \in [1..PostSpan -> PostValues \cup {0}] :
         input = [fn |-> "recovery_days",
                  tickers |-> <<MarketTicker, "XLE">>,
                  norm |-> NormSlice(pre, post)]
    /\ result = Pending

ApplyRecoveryDays ==
    /\ input.fn = "recovery_days" /\ result = Pending
    /\ result' = recovery_days(StrategyTickers(input.tickers), input.norm)
    /\ UNCHANGED <<prices, events, pre_window, post_window, pc, i, widgets,
                   status, out, input>>

SpecRecovery == InitRecovery /\ [][ApplyRecoveryDays]_vars


\* what the slice of the applied call holds before and after the anchor
RecPre == {r \in Range(input.norm.rows) : r.k < 0}
RecPost == {r \in Range(input.norm.rows) : r.k > 0}
RecPeak(c) ==
    CHOOSE m \in {r.v[c] : r \in RecPre} : \A r \in RecPre : RLe(r.v[c], m)
RecTrough(c) ==
    CHOOSE t \in RecPost :
        \A r \in RecPost : RLt(t.v[c], r.v[c]) \/ (r.v[c] = t.v[c] /\ t.k <= r.k)
RecReached(c) ==
    {r.k : r \in {q \in RecPost : q.k >= RecTrough(c).k /\ RLe(RecPeak(c), q.v[c])}}
RecExpected(c) ==
    IF RecReached(c) = {} THEN Inf
    ELSE IntF(CHOOSE d \in RecReached(c) : \A e \in RecReached(c) : d <= e)

\* Scenario A: offsets -2..3 hold 1.2, 1.1, 1.0, 0.7, 0.9, 1.3
ScenarioA == NormSlice([o \in (-PreSpan)..(-1) |-> IF o = -2 THEN 12 ELSE IF o = -1 THEN 11 ELSE 0],
                       [o \in 1..PostSpan |-> IF o = 1 THEN 7 ELSE IF o = 2 THEN 9 ELSE IF o = 3 THEN 13 ELSE 0])

\* C1: for a column with a row before and a row after the anchor,
\* recovery_days is the first offset at or after the post-anchor trough whose
\* value is >= the pre-anchor peak, and inf when there is none; the anchor row
\* takes no part; the market column gets no entry; Scenario A gives 3.
C1_RecoveryFromTrough ==
    result # Pending =>
        /\ (RecPre # {} /\ RecPost # {}) =>
              /\ result.exc = "none"
              /\ DOMAIN result.val = input.norm.cols \ {MarketTicker}
              /\ \A c \in DOMAIN result.val : result.val[c] = RecExpected(c)
        /\ input.norm = ScenarioA => result.val["XLE"] = IntF(3)

\* Scenario A has been evaluated
C1_Witness == result # Pending /\ input.norm = ScenarioA

\* C10: recovery_days completes on every slice that holds the anchor, giving
\* each column inf or a non-negative offset of the slice; inf when no row
\* precedes the anchor and when no row after it reaches the pre-anchor peak.
C10_RecoveryCompletes ==
    result # Pending =>
        /\ result.exc = "none"
        /\ \A c \in input.norm.cols \ {MarketTicker} :
              /\ c \in DOMAIN result.val
              /\ \/ result.val[c] = Inf
                 \/ \E r \in Range(input.norm.rows) :
                        r.k >= 0 /\ result.val[c] = IntF(r.k)
              /\ RecPre = {} => result.val[c] = Inf
              /\ (RecPre # {} /\ \A r \in RecPost : ~RLe(RecPeak(c), r.v[c]))
                    => result.val[c] = Inf


-----------------------------------------------------------------------------
(* compute_beta applied to a raw slice *)

MaxReturns == 3          \* a slice holds up to MaxReturns + 1 rows
\* period returns in hundredths a row may show for the market / the sector
MktReturns == {1, 2, 3}
SecReturns == {2, 4, 6, -1, -2}

\* the prices that start at 1 and show the period returns rets (hundredths)
RECURSIVE PricePath(_)
PricePath(rets) ==
    IF rets = <<>> THEN <<One>>
    ELSE LET before == PricePath(SubSeq(rets, 1, Len(rets) - 1))
         IN  Append(before, RMul(before[Len(before)],
                                 RAdd(One, Rat(rets[Len(rets)], 100))))

RawSlice(mr, sr) ==
    LET pm == PricePath(mr)
        ps == PricePath(sr)
    IN  [cols |-> {MarketTicker, "XLE"},
         rows |-> [j \in 1..Len(pm) |->
                     [k |-> j - 1,
                      v |-> [c \in {MarketTicker, "XLE"} |->
                               IF c = MarketTicker THEN pm[j] ELSE ps[j]]]]]

InitBeta ==
    /\ PipelineIdle
    /\ \E n \in 1..MaxReturns :
         \E mr \in [1..n -> MktReturns], sr \in [1..n -> SecReturns] :
            input = [fn |-> "compute_beta", window |-> RawSlice(mr, sr)]
    /\ result = Pending

ApplyComputeBeta ==
    /\ input.fn = "compute_beta" /\ result = Pending
    /\ result' = compute_beta(input.window, MarketTicker)
    /\ UNCHANGED <<prices, events, pre_window, post_window, pc, i, widgets,
                   status, out, input>>

SpecBeta == InitBeta /\ [][ApplyComputeBeta]_vars

\* period return j of column c of the applied slice: the first difference of
\* the price ratio, the first row having none
BetaReturn(c, j) ==
    RSub(RDiv(input.window.rows[j + 1].v[c], input.window.rows[j].v[c]), One)
BetaPeriods == 1..(Len(input.window.rows) - 1)
\* the sector's returns are k times the market's
Proportional(c, k) ==
    \A j \in BetaPeriods : BetaReturn(c, j) = RMul(k, BetaReturn(MarketTicker, j))
\* the market's returns are not all equal (their variance is not zero)
MarketVaries ==
    \E j, h \in BetaPeriods : BetaReturn(MarketTicker, j) # BetaReturn(MarketTicker, h)
ScenarioB == RawSlice(<<1, 2, 3>>, <<2, 4, 6>>)

\* C4: when a sector's period returns are k times the market's and the
\* market's returns vary, compute_beta gives the sector beta k; market
\* returns 0.01, 0.02, 0.03 with the sector double give 2.
C4_BetaOfMultiple ==
    result # Pending =>
        /\ result.exc = "none"
        /\ \A c \in input.window.cols \ {MarketTicker} :
             \A j \in BetaPeriods :
                LET k == RDiv(BetaReturn(c, j), BetaReturn(MarketTicker, j))
                IN  (IsFinite(k) /\ Proportional(c, k) /\ MarketVaries)
                        => result.val[c] = k
        /\ input.window = ScenarioB => result.val["XLE"] = IntF(2)

\* Scenario B has been evaluated
C4_Witness == result # Pending /\ input.window = ScenarioB


-----------------------------------------------------------------------------
(* build_summary applied to a window, with the metrics and the betas of     *)
(* that window as _update passes them                                       *)

\* the lists of tickers a Strategy may be built with, and the columns the
\* table may hold
TickerConfigs == {<<MarketTicker, "XLE", "XLK">>, <<MarketTicker, "XLE">>,
                  <<MarketTicker, "XLK">>}
ColumnSets == {{MarketTicker, "XLE", "XLK"}, {MarketTicker, "XLE"},
               {MarketTicker, "XLK"}}

RestrictCols(df, cols) ==
    [cols |-> cols,
     rows |-> [j \in 1..Len(df.rows) |->
                 [k |-> df.rows[j].k, v |-> [c \in cols |-> df.rows[j].v[c]]]]]

InitSummary ==
    /\ PipelineIdle
    /\ \E cfg \in TickerConfigs, cols \in ColumnSets, table \in ProviderTables :
         /\ Len(table.rows) >= 2
         /\ \E idx \in 1..Len(table.rows) :
              \E window \in {RestrictCols(table, cols)} :
                input = [fn |-> "build_summary",
                         tickers |-> cfg,
                         norm |-> RelDays(normalise(window, window.rows[idx].k),
                                          window.rows[idx].k),
                         raw |-> RelDays(window, window.rows[idx].k)]
    /\ result = Pending

ApplyBuildSummary ==
    /\ input.fn = "build_summary" /\ result = Pending
    /\ \E metrics \in {compute_metrics(input.norm)},
          betas \in {compute_beta(input.raw, MarketTicker)} :
         result' = build_summary(StrategyTickers(input.tickers), metrics.val,
                                 betas.val, input.norm, input.raw)
    /\ UNCHANGED <<prices, events, pre_window, post_window, pc, i, widgets,
                   status, out, input>>

SpecSummary == InitSummary /\ [][ApplyBuildSummary]_vars

\* C6: build_summary gives exactly one row, of six fields, to each configured
\* non-market ticker that the returns table (the slice's columns) holds, none
\* to the market, and leaves a configured ticker the slice lacks out without
\* an error.  (Slices on which recovery_days itself fails, rows before the
\* anchor and none after it, are set aside.)
C6_SummaryRows ==
    (/\ result # Pending
     /\ \/ \A r \in Range(input.norm.rows) : r.k >= 0
        \/ \E r \in Range(input.norm.rows) : r.k > 0) =>
        /\ result.exc = "none"
        /\ Range(result.index) =
              {t \in Range(input.tickers) : t # MarketTicker} \cap input.norm.cols
        /\ Len(result.index) = Cardinality(Range(result.index))
        /\ DOMAIN result.rows = Range(result.index)
        /\ \A t \in Range(result.index) :
              DOMAIN result.rows[t] = {"pre_return", "post_return", "max_drawdown",
                                       "volatility", "days_to_recovery", "beta"}

=============================================================================
